---- MODULE Spec2Model ----
(***************************************************************************)
(* Model of main.py of Electricity_consumption: the lag-feature builder,   *)
(* the chronological train/test split, the three forecast strategies and   *)
(* the recursive rollout of forecast_future.                               *)
(*                                                                         *)
(* The statistical libraries (auto_arima/ARIMA, XGBRegressor,              *)
(* GradientBoostingRegressor) are outside the repository.  A fitted model  *)
(* is represented by a predictor chosen at fit time from Regressors; what  *)
(* the program passes to fit, predict and calculate_metrics is recorded.   *)
(***************************************************************************)
EXTENDS Integers, Sequences, FiniteSets, TLC

\* ------------------------------------------------------------------ bounds
MaxLen == 10        \* longest series explored
MaxSteps == 2       \* largest future_steps explored
MaxLagArg == 3      \* largest lag count explored by LagSpec

\* values a present monthly mean can take (two distinct numbers are enough to
\* tell positions of a window apart)
Values == {1, 2}

\* ------------------------------------------------- IEEE-754 double arithmetic
\* test_size is a Python float and the split index is int(len * (1 - test_size)),
\* computed in binary64 with round-to-nearest-even after every operation.
\* A number 0 <= v < 2^24 is held exactly as four limbs <<a0, a1, a2, a3>> of
\* 24 bits, v = a0 + a1/B + a2/B^2 + a3/B^3; every double met here (test_size,
\* 1 - test_size, len * (1 - test_size), for 1 <= percent <= 99 and len <= 127)
\* is a multiple of 2^-72 and so has such a form.
LimbBits == 24
MantBits == 53
B == 2 ^ LimbBits

\* floor(log2 v) for 1 <= v < B
Log2(v) == CHOOSE e \in 0..(LimbBits - 1) : 2 ^ e <= v /\ v < 2 ^ (e + 1)

\* limbs that may exceed B - 1, brought back into range
Carry(a) ==
    LET c3 == a[4] \div B
        c2 == (a[3] + c3) \div B
        c1 == (a[2] + c2) \div B
    IN  <<a[1] + c1, (a[2] + c2) % B, (a[3] + c3) % B, a[4] % B>>

\* exponent of the leading bit of v > 0
LeadExp(a) ==
    IF a[1] > 0 THEN Log2(a[1])
    ELSE IF a[2] > 0 THEN Log2(a[2]) - LimbBits
    ELSE IF a[3] > 0 THEN Log2(a[3]) - 2 * LimbBits
    ELSE Log2(a[4]) - 3 * LimbBits

\* the exact value a (plus, when sticky, a nonzero amount below 2^-72) rounded
\* to the nearest double, ties to even
Round(a, sticky) ==
    IF a = <<0, 0, 0, 0>> THEN a
    ELSE
    LET t     == (MantBits - 1) - LeadExp(a)          \* fractional bits kept
        j     == (t + LimbBits - 1) \div LimbBits     \* limb holding the last kept bit
        cut   == 2 ^ (LimbBits * j - t)               \* weight of that bit in limb j
        limb  == a[j + 1]
        q     == limb \div cut
        rem   == limb % cut
        nxt   == IF j < 3 THEN a[j + 2] ELSE 0
        below == (j < 3 /\ (2 * nxt) % B # 0) \/ (j < 2 /\ a[4] # 0) \/ sticky
        twice == 2 * rem + (IF 2 * nxt >= B THEN 1 ELSE 0)
        up    == twice > cut
                 \/ (twice = cut /\ below)
                 \/ (twice = cut /\ ~below /\ q % 2 = 1)
        kept  == (q + (IF up THEN 1 ELSE 0)) * cut
    IN  IF t > 3 * LimbBits THEN a
        ELSE Carry([i \in 1..4 |-> IF i < j + 1 THEN a[i] ELSE IF i = j + 1 THEN kept ELSE 0])

\* p / d for integers 0 <= p, 1 <= d <= 127 (slider value / 100)
FloatDiv(p, d) ==
    LET r0 == p % d
        r1 == (r0 * B) % d
        r2 == (r1 * B) % d
        r3 == (r2 * B) % d
    IN  Round(<<p \div d, (r0 * B) \div d, (r1 * B) \div d, (r2 * B) \div d>>, r3 # 0)

\* 1 - f for a double 0 < f < 1
FloatOneMinus(f) ==
    Round(Carry(<<0, (B - 1) - f[2], (B - 1) - f[3], B - f[4]>>), FALSE)

\* n * x for an integer 0 <= n <= 127 and a double x
FloatMulInt(n, x) ==
    Round(Carry([i \in 1..4 |-> n * x[i]]), FALSE)

\* int(x) for a double x >= 0
Trunc(x) == x[1]

\* test_size as the caller computes it: slider percent / 100
TestSize(pct) == FloatDiv(pct, 100)

\* int(len(data) * (1 - test_size))
TrainSize(n, pct) == Trunc(FloatMulInt(n, FloatOneMinus(TestSize(pct))))

\* ------------------------------------------------------------- data model
LagFeatures == 8            \* lag_features, default of the strategies, fixed in forecast_future
NaN == 0 - 1                \* missing value: a month without readings, or a cell left by shift()

\* load_data: every series of at most MaxLen monthly means; positions 1..n stand
\* for the month-end index.  ffill() fills forward only, so the months before
\* the first valid reading stay missing and every later month has a value.
Series ==
    UNION {{s \in [1..n -> Values \cup {NaN}] : \A p \in 2..n : s[p] = NaN => s[p - 1] = NaN}
           : n \in 0..MaxLen}

\* test sizes (in percent) the strategies are entered with: the slider's
\* minimum 10, its default 20, its maximum 50, and 80, which only a direct
\* call of a strategy can pass
TestPercents == {10, 20, 50, 80}

ModelChoices == {"SARIMA", "XGBoost", "Gradient Boosting", "Prophet"}
Tabular == {"XGBoost", "Gradient Boosting"}

\* data.to_frame(name="target"): one row per index entry
ToFrame(s) == [r \in 1..Len(s) |-> [idx |-> r, target |-> s[r], lags |-> <<>>]]

\* shift(j - 1) in place of shift(j)
Shift_prev(frame, j, r) == IF r - (j - 1) >= 1 THEN frame[r - (j - 1)].target ELSE NaN

\* data[col].shift(j) at row r
Shift(frame, j, r) == IF r - j >= 1 THEN frame[r - j].target ELSE NaN

\* get_lag: the columns target_lag1 .. target_lag<k>, in this order
GetLag(frame, k) ==
    [r \in 1..Len(frame) |-> [frame[r] EXCEPT !.lags = [j \in 1..k |-> Shift(frame, j, r)]]]

HasNa(row) == row.target = NaN \/ \E j \in 1..Len(row.lags) : row.lags[j] = NaN

\* dropna(): rows with a missing cell removed, order kept
DropNa(frame) == SelectSeq(frame, LAMBDA row : ~HasNa(row))

\* data[:train_size] and data[train_size:] with train_size = int(len * (1 - test_size))
SplitTrain(rows, pct) == SubSeq(rows, 1, TrainSize(Len(rows), pct))
SplitTest(rows, pct) == SubSeq(rows, TrainSize(Len(rows), pct) + 1, Len(rows))

\* ------------------------------------------------------ external regressors
\* A fitted model is a deterministic predictor: one that answers a constant,
\* or one that echoes the first or the last of its k feature columns (for
\* ARIMA, k = 1: the last observed value).
Regressors(k) == {<<"const", v>> : v \in Values} \cup {<<"column", c>> : c \in {1, k} \cap 1..k}

\* model.predict on one feature row (columns target_lag1 .. target_lag8)
PredictRow(r, x) == IF r[1] = "const" THEN r[2] ELSE x[r[2]]

\* rows whose target is not missing
Present(rows) == SelectSeq(rows, LAMBDA row : row.target # NaN)

\* ARIMA predictions for `steps` periods after the fitted series (the echoing
\* predictor repeats the last observed value)
ArimaPredict(r, fitted, steps) ==
    [s \in 1..steps |-> IF r[1] = "const" THEN r[2]
                        ELSE Present(fitted)[Len(Present(fitted))].target]

Abs(x) == IF x < 0 THEN 0 - x ELSE x

RECURSIVE SumSeq(_)
SumSeq(s) == IF s = <<>> THEN 0 ELSE s[1] + SumSeq(Tail(s))

\* calculate_metrics, reduced to the error sums behind its first two entries
\* (RMSE = sqrt(sse / n), MAE = sae / n)
CalculateMetrics(truth, predicted) ==
    [n   |-> Len(truth),
     sse |-> SumSeq([k \in 1..Len(truth) |-> (truth[k] - predicted[k]) * (truth[k] - predicted[k])]),
     sae |-> SumSeq([k \in 1..Len(truth) |-> Abs(truth[k] - predicted[k])])]

\* list(input_data) + [next_pred]: the oldest entry is not dropped
Roll_keep(window, next_pred) == window \o <<next_pred>>

\* list(input_data[1:]) + [next_pred]
Roll(window, next_pred) == Tail(window) \o <<next_pred>>

\* range(future_steps + 1): one iteration too many
InRange_inclusive(i_done, steps) == i_done <= steps

\* "for _ in range(future_steps)": another iteration follows the i done so far
InRange(i_done, steps) == i_done < steps

\* pd.date_range(start=data.index[-1], periods=future_steps + 1, freq='M')[1:]
FutureIndex(n, steps) == Tail([s \in 1..(steps + 1) |-> n + s - 1])

\* pd.Series(values, index=index)
MakeSeries(values, index) ==
    IF Len(values) # Len(index) THEN [kind |-> "error", error |-> "ValueError"]
    ELSE [kind |-> "series",
          rows |-> [s \in 1..Len(index) |-> [idx |-> index[s], value |-> values[s]]]]

Targets(rows) == [r \in 1..Len(rows) |-> rows[r].target]

NoResult == [kind |-> "unset"]

\* ------------------------------------------------------------------- state
VARIABLES
    data,           \* the monthly series returned by load_data
    fn,             \* function being executed, "idle" between calls
    pc,             \* position inside it
    model_choice,   \* forecast_future's model_choice
    test_pct,       \* test_size * 100
    lag_features,   \* lag count of the running tabular strategy
    future_steps,   \* forecast_future's future_steps
    table,          \* the lag table after dropna
    train, test,    \* train_data, test_data
    reg,            \* the fitted model
    fit_train,      \* rows passed to fit as X_train, y_train
    fit_eval,       \* row lists passed to fit as eval_set
    input_data,     \* rolling window of forecast_future
    predictions,
    i,              \* iterations of the rollout loop completed
    result          \* value returned (or error raised) by the function

vars == <<data, fn, pc, model_choice, test_pct, lag_features, future_steps, table,
          train, test, reg, fit_train, fit_eval, input_data, predictions, i, result>>

Idle ==
    /\ fn = "idle" /\ pc = "idle"
    /\ model_choice = "" /\ test_pct = 0 /\ lag_features = 0 /\ future_steps = 0
    /\ table = <<>> /\ train = <<>> /\ test = <<>>
    /\ reg = <<>> /\ fit_train = <<>> /\ fit_eval = <<>>
    /\ input_data = <<>> /\ predictions = <<>> /\ i = 0
    /\ result = NoResult

Init == data \in Series /\ Idle

\* the function the "Train Model" button dispatches to
Strategy(choice) ==
    IF choice = "SARIMA" THEN "sarima_forecast"
    ELSE IF choice = "XGBoost" THEN "xgboost_forecast"
    ELSE "gradient_boosting_forecast"

UsesXGBoost == fn = "xgboost_forecast" \/ (fn = "forecast_future" /\ model_choice = "XGBoost")

Raise(e) ==
    /\ pc' = "error"
    /\ result' = [kind |-> "error", error |-> e]

\* one of the three strategies is entered with a test size, by the "Train Model"
\* button or by a direct call
TrainModel(choice, pct) ==
    /\ pc = "idle"
    /\ fn' = Strategy(choice)
    /\ model_choice' = choice
    /\ test_pct' = pct
    /\ lag_features' = IF choice \in Tabular THEN LagFeatures ELSE 0
    /\ pc' = IF choice \in Tabular THEN "lag" ELSE "split"
    /\ UNCHANGED <<data, future_steps, table, train, test, reg, fit_train, fit_eval,
                   input_data, predictions, i, result>>

\* a tabular strategy called directly, xgboost_forecast(data, lag_features=k) or
\* gradient_boosting_forecast(data, lag_features=k), test_size left at its default 0.2
CallStrategy(choice, k) ==
    /\ pc = "idle"
    /\ fn' = Strategy(choice)
    /\ model_choice' = choice
    /\ test_pct' = 20
    /\ lag_features' = k
    /\ pc' = "lag"
    /\ UNCHANGED <<data, future_steps, table, train, test, reg, fit_train, fit_eval,
                   input_data, predictions, i, result>>

\* forecast_future(data, model_choice, future_steps): the branch on model_choice;
\* a name that matches no branch falls off the end of the function
ForecastFuture(choice, steps) ==
    /\ pc = "idle"
    /\ fn' = "forecast_future"
    /\ model_choice' = choice
    /\ future_steps' = steps
    /\ lag_features' = IF choice \in Tabular THEN LagFeatures ELSE 0
    /\ IF choice = "SARIMA" THEN pc' = "fit" /\ result' = result
       ELSE IF choice \in Tabular THEN pc' = "lag" /\ result' = result
       ELSE pc' = "done" /\ result' = [kind |-> "none"]
    /\ UNCHANGED <<data, test_pct, table, train, test, reg, fit_train, fit_eval,
                   input_data, predictions, i>>

\* to_frame, get_lag, dropna
BuildLag ==
    /\ pc = "lag"
    /\ table' = DropNa(GetLag(ToFrame(data), lag_features))
    /\ pc' = IF fn = "forecast_future" THEN "fit" ELSE "split"
    /\ UNCHANGED <<data, fn, model_choice, test_pct, lag_features, future_steps, train, test,
                   reg, fit_train, fit_eval, input_data, predictions, i, result>>

\* the chronological split, of the series (SARIMA) or of the lag table
Split ==
    /\ pc = "split"
    /\ LET rows == IF fn = "sarima_forecast" THEN ToFrame(data) ELSE table
       IN  /\ train' = SplitTrain(rows, test_pct)
           /\ test' = SplitTest(rows, test_pct)
    /\ pc' = "fit"
    /\ UNCHANGED <<data, fn, model_choice, test_pct, lag_features, future_steps, table,
                   reg, fit_train, fit_eval, input_data, predictions, i, result>>

\* rows the running function fits on
TrainingRows ==
    IF fn # "forecast_future" THEN train
    ELSE IF model_choice = "SARIMA" THEN ToFrame(data)
    ELSE table

\* the library may reject the training rows: an empty set, or (only the series
\* SARIMA is fitted on can hold them) missing values
MayReject == TrainingRows = <<>> \/ Present(TrainingRows) # TrainingRows

\* the library may fit them: pmdarima and scikit-learn need a row, XGBoost may
\* do without; a series with missing months needs at least one value
MayFit == IF TrainingRows = <<>> THEN UsesXGBoost ELSE Present(TrainingRows) # <<>>

\* auto_arima + ARIMA.fit, XGBRegressor.fit, GradientBoostingRegressor.fit.
\* xgboost_forecast also hands fit the eval_set [(train), (test)].
Fit ==
    /\ pc = "fit"
    /\ \/ /\ MayReject
          /\ Raise("ValueError")
          /\ UNCHANGED <<reg, fit_train, fit_eval>>
       \/ /\ MayFit
          /\ reg' \in Regressors(IF model_choice = "SARIMA" THEN 1 ELSE lag_features)
          /\ fit_train' = TrainingRows
          /\ fit_eval' = IF fn = "xgboost_forecast" THEN <<train, test>> ELSE <<>>
          /\ pc' = IF fn # "forecast_future" THEN "predict"
                   ELSE IF model_choice = "SARIMA" THEN "forecast" ELSE "seed"
          /\ result' = result
    /\ UNCHANGED <<data, fn, model_choice, test_pct, lag_features, future_steps, table,
                   train, test, input_data, predictions, i>>

\* predictions over the test rows
Predict ==
    /\ pc = "predict"
    /\ predictions' =
           IF fn = "sarima_forecast" THEN ArimaPredict(reg, train, Len(test))
           ELSE [r \in 1..Len(test) |-> PredictRow(reg, test[r].lags)]
    /\ pc' = "metrics"
    /\ UNCHANGED <<data, fn, model_choice, test_pct, lag_features, future_steps, table,
                   train, test, reg, fit_train, fit_eval, input_data, i, result>>

\* calculate_metrics(test, predictions) and the return of the strategy;
\* scikit-learn's metrics reject empty arrays and missing values
Metrics ==
    /\ pc = "metrics"
    /\ IF test = <<>> \/ Present(test) # test THEN Raise("ValueError")
       ELSE /\ result' = [kind |-> "forecast",
                          metrics |-> CalculateMetrics(Targets(test), predictions),
                          predictions |-> predictions,
                          truth |-> test]
            /\ pc' = "done"
    /\ UNCHANGED <<data, fn, model_choice, test_pct, lag_features, future_steps, table,
                   train, test, reg, fit_train, fit_eval, input_data, predictions, i>>

\* input_data = X_train.iloc[-1].values
Seed ==
    /\ pc = "seed"
    /\ IF table = <<>> THEN Raise("IndexError") /\ input_data' = input_data
       ELSE /\ input_data' = table[Len(table)].lags
            /\ pc' = "rollout"
            /\ result' = result
    /\ predictions' = <<>>
    /\ i' = 0
    /\ UNCHANGED <<data, fn, model_choice, test_pct, lag_features, future_steps, table,
                   train, test, reg, fit_train, fit_eval>>

\* one iteration of "for _ in range(future_steps)"
RollStep ==
    /\ pc = "rollout"
    /\ InRange(i, future_steps)
    /\ LET next_pred == PredictRow(reg, input_data)
       IN  /\ predictions' = Append(predictions, next_pred)
           /\ input_data' = Roll(input_data, next_pred)
    /\ i' = i + 1
    /\ UNCHANGED <<data, fn, pc, model_choice, test_pct, lag_features, future_steps, table,
                   train, test, reg, fit_train, fit_eval, result>>

\* the loop is exhausted: the predictions are returned over the future index
FinishRollout ==
    /\ pc = "rollout"
    /\ ~InRange(i, future_steps)
    /\ result' = MakeSeries(predictions, FutureIndex(Len(data), future_steps))
    /\ pc' = IF result'.kind = "error" THEN "error" ELSE "done"
    /\ UNCHANGED <<data, fn, model_choice, test_pct, lag_features, future_steps, table,
                   train, test, reg, fit_train, fit_eval, input_data, predictions, i>>

\* get_forecast(steps=future_steps) of the SARIMA branch
ArimaFuture ==
    /\ pc = "forecast"
    /\ predictions' = ArimaPredict(reg, fit_train, future_steps)
    /\ result' = MakeSeries(predictions', FutureIndex(Len(data), future_steps))
    /\ pc' = IF result'.kind = "error" THEN "error" ELSE "done"
    /\ UNCHANGED <<data, fn, model_choice, test_pct, lag_features, future_steps, table,
                   train, test, reg, fit_train, fit_eval, input_data, i>>

\* the function has returned or raised; the next interaction starts afresh
Return ==
    /\ pc \in {"done", "error"}
    /\ fn' = "idle" /\ pc' = "idle"
    /\ model_choice' = "" /\ test_pct' = 0 /\ lag_features' = 0 /\ future_steps' = 0
    /\ table' = <<>> /\ train' = <<>> /\ test' = <<>>
    /\ reg' = <<>> /\ fit_train' = <<>> /\ fit_eval' = <<>>
    /\ input_data' = <<>> /\ predictions' = <<>> /\ i' = 0
    /\ result' = NoResult
    /\ UNCHANGED data

Next ==
    \/ \E choice \in ModelChoices \ {"Prophet"}, pct \in TestPercents : TrainModel(choice, pct)
    \/ \E choice \in ModelChoices, steps \in 0..MaxSteps : ForecastFuture(choice, steps)
    \/ BuildLag
    \/ Split
    \/ Fit
    \/ Predict
    \/ Metrics
    \/ Seed
    \/ RollStep
    \/ FinishRollout
    \/ ArimaFuture
    \/ Return

Spec == Init /\ [][Next]_vars

\* every place the lag table is built: the tabular strategies under every lag
\* count 0..MaxLagArg, and forecast_future (lag count fixed at 8) with what
\* follows the table there
NextLag ==
    \/ \E choice \in Tabular, k \in 0..MaxLagArg : CallStrategy(choice, k)
    \/ \E choice \in ModelChoices, steps \in 0..MaxSteps : ForecastFuture(choice, steps)
    \/ BuildLag
    \/ Split
    \/ Fit
    \/ Predict
    \/ Metrics
    \/ Seed
    \/ RollStep
    \/ FinishRollout
    \/ ArimaFuture
    \/ Return

LagSpec == Init /\ [][NextLag]_vars

\* ------------------------------------------------------------------ claims
StrategyNames == {"sarima_forecast", "xgboost_forecast", "gradient_boosting_forecast"}
TabularFuture == fn = "forecast_future" /\ model_choice \in Tabular
Count(s, v) == Cardinality({p \in 1..Len(s) : s[p] = v})
Failed(e) == pc = "error" /\ result.kind = "error" /\ result.error = e
AfterSplit == fn \in StrategyNames /\ pc \in {"fit", "predict", "metrics", "done", "error"}
AfterLag == model_choice \in Tabular /\ pc \notin {"idle", "lag"}

\* C1: when the rollout starts, the window holds the last k values of the
\* series, data[n-k+1] .. data[n] (each value as often as it occurs among them),
\* the most recent value data[n] included.
C1_SeedIsLastK ==
    (TabularFuture /\ pc = "rollout" /\ i = 0) =>
        \A v \in Values :
            Count(input_data, v) =
                Cardinality({p \in (Len(data) - LagFeatures + 1)..Len(data) : data[p] = v})

\* C2: every rollout step puts the new prediction at the newest lag (column
\* target_lag1, position 1), moves every lag_j to lag_(j+1) and drops the oldest.
C2_ShiftKeepsLagMeaning ==
    [][(pc = "rollout" /\ i' = i + 1) =>
          input_data' = <<predictions'[i']>> \o SubSeq(input_data, 1, LagFeatures - 1)]_vars

\* positions whose row survives dropna: p > k with data[p-k] .. data[p] all present
Complete(k) == {p \in (k + 1)..Len(data) : \A q \in (p - k)..p : data[q] # NaN}

\* number of missing months of the series
Missing == Count(data, NaN)

\* the missing months are the first ones of the series (all load_data can leave)
MissingLead == \A p \in 1..Len(data) : data[p] = NaN <=> p <= Missing

Max(a, b) == IF a >= b THEN a ELSE b

\* C3, as amended: for k < n the lag table (of xgboost_forecast,
\* gradient_boosting_forecast and forecast_future) has one row for every
\* position p > k whose values data[p-k] .. data[p] are all present, in order,
\* with target = data[p] and lag_j = data[p - j] for j in 1..k; when the missing
\* values are the first m months these are max(0, n - k - m) rows, the first
\* k + m positions dropped, so n - k rows when the series has no missing value.
C3_LagTable ==
    (AfterLag /\ lag_features < Len(data)) =>
        /\ Len(table) = Cardinality(Complete(lag_features))
        /\ {table[r].idx : r \in 1..Len(table)} = Complete(lag_features)
        /\ \A r \in 1..(Len(table) - 1) : table[r].idx < table[r + 1].idx
        /\ \A r \in 1..Len(table) :
              /\ table[r].target = data[table[r].idx]
              /\ Len(table[r].lags) = lag_features
              /\ \A j \in 1..lag_features : table[r].lags[j] = data[table[r].idx - j]
        /\ MissingLead =>
              /\ Len(table) = Max(0, Len(data) - lag_features - Missing)
              /\ \A r \in 1..Len(table) : table[r].idx = r + lag_features + Missing
        /\ Missing = 0 => Len(table) = Len(data) - lag_features

\* C3 as stated: for k < n the lag table has n - k rows, in order, the first k
\* rows of the series dropped; the row of position p has target = data[p] and
\* lag_j = data[p - j] for j in 1..k (stated for k >= 1).
C3_LagTableAnySeries ==
    (AfterLag /\ lag_features >= 1 /\ lag_features < Len(data)) =>
        /\ Len(table) = Len(data) - lag_features
        /\ \A r \in 1..Len(table) :
              /\ table[r].idx = r + lag_features
              /\ table[r].target = data[r + lag_features]
              /\ Len(table[r].lags) = lag_features
              /\ \A j \in 1..lag_features : table[r].lags[j] = data[r + lag_features - j]

\* C3 witness: forecast_future on ten months, the first one missing, eight
\* lags: one row, of position 10, with lag_j = data[10 - j]
C3_Witness ==
    /\ fn = "forecast_future" /\ pc = "fit" /\ lag_features = LagFeatures
    /\ data = <<NaN, 1, 2, 1, 1, 1, 1, 1, 1, 2>>
    /\ table = <<[idx |-> 10, target |-> 2, lags |-> <<1, 1, 1, 1, 1, 1, 2, 1>>]>>

\* C4: the split has train = [0, train_size), test = [train_size, n) with
\* train_size = floor(n * (1 - f)); the ranges are disjoint, precede one
\* another and their lengths sum to n.
C4_SplitIsFloor ==
    (fn \in StrategyNames /\ pc = "fit") =>
        LET rows == IF fn = "sarima_forecast" THEN ToFrame(data) ELSE table
            n == Len(rows)
        IN  /\ Len(train) = (n * (100 - test_pct)) \div 100
            /\ Len(train) + Len(test) = n
            /\ train \o test = rows

\* C5: a tabular strategy fits on the training rows only: no test row is
\* among the rows handed to the fit call (stated for the runs whose training
\* range is not empty).
C5_FitSeesTrainOnly ==
    (fn \in StrategyNames /\ model_choice \in Tabular /\ reg # <<>> /\ train # <<>>) =>
        /\ fit_train = train
        /\ \A e \in 1..Len(fit_eval) : \A r \in 1..Len(fit_eval[e]) :
              \A q \in 1..Len(test) : fit_eval[e][r] # test[q]

IsConstant(s, c) == \A p \in 1..Len(s) : s[p] = c

\* C6: on a constant series (all values c, n > k) with a model that answers c
\* for the all-c window, the tabular forecast_future returns exactly
\* future_steps values, all equal to c.
C6_ConstantRollout ==
    \A c \in Values :
        (/\ TabularFuture /\ pc \in {"done", "error"}
         /\ Len(data) > LagFeatures /\ IsConstant(data, c)
         /\ reg # <<>> /\ PredictRow(reg, [j \in 1..LagFeatures |-> c]) = c)
        => /\ result.kind = "series"
           /\ Len(result.rows) = future_steps
           /\ \A s \in 1..Len(result.rows) : result.rows[s].value = c

C6_Witness ==
    /\ TabularFuture /\ pc = "done" /\ future_steps >= 2
    /\ Len(data) > LagFeatures /\ IsConstant(data, 2)
    /\ reg = <<"column", LagFeatures>>
    /\ result.kind = "series" /\ Len(result.rows) = future_steps
    /\ \A s \in 1..Len(result.rows) : result.rows[s].value = 2

\* C7: a split whose train or test range is empty fails with InvalidFraction;
\* no strategy goes on to fit or predict with an empty range.
C7_EmptyRangeRejected ==
    (AfterSplit /\ (train = <<>> \/ test = <<>>)) => Failed("InvalidFraction")

\* C8: building the lag table fails with InsufficientHistory when k < 1 or
\* k >= n; nothing continues with an empty table.
C8_ShortSeriesRejected ==
    (AfterLag /\ (lag_features < 1 \/ lag_features >= Len(data))) =>
        Failed("InsufficientHistory")

\* C9: forecast_future fails with UnknownStrategy for a model_choice outside
\* SARIMA, XGBoost, Gradient Boosting; it never returns for such a name.
C9_UnknownStrategyRejected ==
    (fn = "forecast_future" /\ model_choice \notin ({"SARIMA"} \cup Tabular)) =>
        Failed("UnknownStrategy")

\* C10: the rollout window holds exactly k = 8 values before and after every
\* step, one prediction is appended per step, and the loop ends after exactly
\* future_steps steps.
C10_WindowSize ==
    /\ (TabularFuture /\ pc = "rollout") =>
          /\ Len(input_data) = LagFeatures
          /\ Len(predictions) = i
          /\ i <= future_steps
    /\ (TabularFuture /\ pc = "done") =>
          /\ Len(input_data) = LagFeatures
          /\ Len(predictions) = future_steps
          /\ i = future_steps

C10_Witness ==
    /\ TabularFuture /\ pc = "done" /\ future_steps >= 2
    /\ i = future_steps /\ Len(predictions) = i /\ Len(input_data) = LagFeatures
    /\ predictions[1] # predictions[2]
====
